---- MODULE Spec2Model ----
(***************************************************************************)
(* Model of the notes data layer of the note-app repository:               *)
(*   - the Notes Store   (src/src/context/NotesContext.tsx, NotesProvider) *)
(*   - the Remote Notes Client (notesService: getAllNotes / addNote /      *)
(*     updateNote)                                                         *)
(* An async function is split at its await: the part before the await is   *)
(* the "call" action, the continuation after the awaited promise settles   *)
(* is the "settle" action.  JavaScript is single threaded, so each part is *)
(* atomic.  A closure created by a render reads the `notes` of that render,*)
(* so a call captures the collection held at call time (its snapshot).     *)
(***************************************************************************)
EXTENDS Integers, Sequences, FiniteSets, TLC

\* ------------------------------------------------------------------ bounds
MaxCalls == 2       \* addNote/updateNote calls issued in one session
MaxNow == 2         \* number of distinct values Date.now() can return
MaxFetched == 2     \* length of the list the server's list endpoint returns
MaxServerId == 1    \* ids used by notes the server already holds
MaxSubmits == 1     \* submits of NotePage's form that pass validation

\* ------------------------------------------------------------- note values
\* A string is the sequence of its characters.
LearnReact == <<"L", "e", "a", "r", "n", " ", "R", "e", "a", "c", "t">>
SetupBootstrap ==
  <<"S", "e", "t", "u", "p", " ", "B", "o", "o", "t", "s", "t", "r", "a", "p">>

\* Omit<Note, "id">: the three text fields of a note.
FieldSet ==
  { [title |-> <<"A">>, subheading |-> <<"B">>, content |-> <<"C">>],
    [title |-> <<"X">>, subheading |-> <<"Y">>, content |-> <<"Z">>] }

\* the fields of the notes the server already holds
ServerFields == [title |-> LearnReact, subheading |-> <<"S">>, content |-> <<"T">>]

OtherServerFields == [title |-> SetupBootstrap, subheading |-> <<"U">>, content |-> <<"V">>]

ServerFieldSet == {ServerFields, OtherServerFields}

ServerIds == 1..MaxServerId
NowValues == (MaxServerId + 1)..(MaxServerId + MaxNow)
AllIds == ServerIds \cup NowValues

\* A Note as it travels over the wire (JSON): id + the three fields.
MkNote(id, f) ==
  [id |-> id, title |-> f.title, subheading |-> f.subheading, content |-> f.content]

\* A Note object held in memory: the wire fields plus the identity of the
\* JavaScript object (allocation site, call, index).
Obj(n, site, call, idx) ==
  [id |-> n.id, title |-> n.title, subheading |-> n.subheading,
   content |-> n.content, obj |-> <<site, call, idx>>]

Wire(n) == MkNote(n.id, n)

FieldsOf(n) == [title |-> n.title, subheading |-> n.subheading, content |-> n.content]

IdsOf(s) == { s[i].id : i \in 1..Len(s) }

ObjsOf(s) == { s[i].obj : i \in 1..Len(s) }

SeqsUpTo(S, n) == UNION { [1..k -> S] : k \in 0..n }

\* ------------------------------------------------------ HTTP / JSON values
JNull == [t |-> "null"]
JString == [t |-> "string"]
JArray(s) == [t |-> "array", v |-> s]
JNoteValue(n) == [t |-> "note", v |-> n]
JMessage == [t |-> "object", hasData |-> FALSE]
JEnvelope(d) == [t |-> "object", hasData |-> TRUE, data |-> d]
NotJson == [t |-> "invalid"]

NetworkFailure == [kind |-> "network"]
HttpResponse(status, body) ==
  [kind |-> "http", ok |-> (status >= 200 /\ status <= 299), status |-> status, body |-> body]

FailStatuses == {404, 500}

\* errors
NoError == [name |-> "none"]
TypeError == [name |-> "TypeError"]
SyntaxError == [name |-> "SyntaxError"]
HttpError(status) == [name |-> "Error", status |-> status]

Return(v) == [ok |-> TRUE, value |-> v]
Throw(e) == [ok |-> FALSE, error |-> e]

\* `result && typeof result === "object" && "data" in result`
HasDataField(result) == result.t = "object" /\ result.hasData

\* mutant: strict parsing, an unexpected envelope is an error
getAllNotesStrict(resp) ==
  IF resp.kind = "network" THEN Throw(TypeError)
  ELSE IF ~resp.ok THEN Throw(HttpError(resp.status))
  ELSE IF resp.body = NotJson THEN Throw(SyntaxError)
  ELSE IF HasDataField(resp.body) /\ resp.body.data.t = "array"
       THEN Return(resp.body.data.v)
       ELSE Throw([name |-> "Error", status |-> 0])

\* notesService.getAllNotes
getAllNotes(resp) ==
  IF resp.kind = "network" THEN Throw(TypeError)
  ELSE IF ~resp.ok THEN Throw(HttpError(resp.status))
  ELSE IF resp.body = NotJson THEN Throw(SyntaxError)
  ELSE IF HasDataField(resp.body) /\ resp.body.data.t = "array"
       THEN Return(resp.body.data.v)
       ELSE Return(<<>>)

\* mutant: falsy data falls back to the note sent, `return result?.data || note`
svcAddNoteOrNote(note, resp) ==
  IF resp.kind = "network" THEN Throw(TypeError)
  ELSE IF ~resp.ok THEN Throw(HttpError(resp.status))
  ELSE IF resp.body = NotJson THEN Throw(SyntaxError)
  ELSE IF HasDataField(resp.body) /\ resp.body.data # JNull THEN Return(resp.body.data)
       ELSE Return(JNoteValue(note))

\* notesService.addNote
svcAddNote(note, resp) ==
  IF resp.kind = "network" THEN Throw(TypeError)
  ELSE IF ~resp.ok THEN Throw(HttpError(resp.status))
  ELSE IF resp.body = NotJson THEN Throw(SyntaxError)
  ELSE IF HasDataField(resp.body) THEN Return(resp.body.data)
       ELSE Return(JNoteValue(note))

\* mutant: the `if (!response.ok)` check is missing
svcUpdateNoteNoStatusCheck(id, fields, resp) ==
  LET updatedNote == MkNote(id, fields) IN
  IF resp.kind = "network" THEN Throw(TypeError)
  ELSE IF resp.body = NotJson THEN Throw(SyntaxError)
  ELSE IF HasDataField(resp.body) THEN Return(resp.body.data)
       ELSE Return(JNoteValue(updatedNote))

\* notesService.updateNote
svcUpdateNote(id, fields, resp) ==
  LET updatedNote == MkNote(id, fields) IN
  IF resp.kind = "network" THEN Throw(TypeError)
  ELSE IF ~resp.ok THEN Throw(HttpError(resp.status))
  ELSE IF resp.body = NotJson THEN Throw(SyntaxError)
  ELSE IF HasDataField(resp.body) THEN Return(resp.body.data)
       ELSE Return(JNoteValue(updatedNote))

\* ----------------------------------------------- responses the server gives
ServerLists == SeqsUpTo({ MkNote(i, f) : i \in ServerIds, f \in ServerFieldSet }, MaxFetched)

FailResponses == {NetworkFailure} \cup { HttpResponse(s, JNull) : s \in FailStatuses }

ListResponses ==
  FailResponses
    \cup { HttpResponse(200, JEnvelope(JArray(L))) : L \in ServerLists }
    \cup { HttpResponse(200, b) : b \in {NotJson, JMessage, JEnvelope(JNull)} }

\* the note the server echoes: the one sent, or one whose id it rewrote
EchoNotes(sent) == { sent, [sent EXCEPT !.id = sent.id + 1] }

WriteResponses(sent) ==
  FailResponses
    \cup { HttpResponse(200, JEnvelope(JNoteValue(n))) : n \in EchoNotes(sent) }
    \cup { HttpResponse(200, b) : b \in {NotJson, JMessage} }

\* ------------------------------------------------------------------- state
VARIABLES
  notes,       \* useState<Note[]>: the collection
  loading,     \* useState<boolean>
  error,       \* useState<string | null>
  fetchState,  \* position of fetchNotes: "idle", "pending", "ready", "errored"
  calls,       \* the addNote / updateNote calls issued so far, in call order;
               \* snapshot is the `notes` the call's closure holds (released
               \* when the call settles), inflight the calls pending at call time
  now,         \* the last value Date.now() returned
  remote,      \* notes the server acknowledged with a success status
  requests,    \* the HTTP requests sent so far (fetch(...) invocations), in order
  event,       \* the handler that ran last and its input
  pathname,    \* useLocation().pathname, as the route it matches
  urlId,       \* useParams().id, as a number; NoId when the route has none
  title,       \* NotePage: useState("")
  subheading,  \* NotePage: useState("")
  content,     \* NotePage: useState("")
  searchQuery, \* Home: useState("")
  submitted    \* the calls handleSubmit started; it keeps none of their promises

\* the state of the display layer (router, NotePage, Home)
display == <<pathname, urlId, title, subheading, content, searchQuery, submitted>>

vars == <<notes, loading, error, fetchState, calls, now, remote, requests, event,
          pathname, urlId, title, subheading, content, searchQuery, submitted>>

\* useParams().id of a route without :id (undefined)
NoId == 0

NullMessage == "null"
LoadErrorMessage == "Failed to load notes. Please try again later."

\* fetch(`${API_BASE_URL}/all-notes`)
ListRequest == [method |-> "GET", path |-> "/all-notes", call |-> 0]

\* fetch(`${API_BASE_URL}/add-note`, { method: "POST", body: JSON.stringify(note) })
CreateRequest(note, c) ==
  [method |-> "POST", path |-> "/add-note", body |-> note, call |-> c]

\* fetch(`${API_BASE_URL}/update-note`, { method: "PUT", body: JSON.stringify(updatedNote) })
UpdateRequest(id, fields, c) ==
  [method |-> "PUT", path |-> "/update-note", body |-> MkNote(id, fields), call |-> c]

PendingCalls == { c \in DOMAIN calls : calls[c].status = "pending" }

\* the Note object built by addNote call c (NotesContext.tsx:50-53)
NewNote(c) == Obj(MkNote(calls[c].id, calls[c].fields), "add", c, 0)

\* ---------------------------------------------------- store: pure helpers
\* mutant: the fetched notes are merged into the notes already held,
\* setNotes((prev) => [...prev, ...fetchedNotes])
fetchedCollectionMerged(list) ==
  notes \o [i \in 1..Len(list) |-> Obj(list[i], "fetch", 0, i)]

\* setNotes(fetchedNotes)
fetchedCollection(list) ==
  [i \in 1..Len(list) |-> Obj(list[i], "fetch", 0, i)]

\* mutant: the new note is appended instead of prepended
addNoteResultAppend(snapshot, newNote) == snapshot \o <<newNote>>

\* [newNote, ...notes]
addNoteResult(snapshot, newNote) == <<newNote>> \o snapshot

\* mutant: removal by index, notes.splice(notes.findIndex(...), 1); an
\* index of -1 (no match) removes the last note
deleteNoteResultSplice(s, id) ==
  LET k == IF id \in IdsOf(s)
           THEN CHOOSE i \in 1..Len(s) : s[i].id = id /\ \A j \in 1..(i - 1) : s[j].id # id
           ELSE Len(s)
  IN [i \in 1..(IF Len(s) = 0 THEN 0 ELSE Len(s) - 1) |-> IF i < k THEN s[i] ELSE s[i + 1]]

\* notes.filter((note) => note.id !== id)
deleteNoteResult(s, id) == SelectSeq(s, LAMBDA n : n.id # id)

\* mutant: the updated note is moved to the head of the collection
updateNoteResultToFront(s, id, fields, c) ==
  IF id \in IdsOf(s)
  THEN <<Obj(MkNote(id, fields), "update", c, 1)>> \o SelectSeq(s, LAMBDA n : n.id # id)
  ELSE s

\* mutant: upsert, a note is appended when no note has the id
updateNoteResultUpsert(s, id, fields, c) ==
  IF id \in IdsOf(s)
  THEN [i \in 1..Len(s) |->
          IF s[i].id = id THEN Obj(MkNote(id, fields), "update", c, i) ELSE s[i]]
  ELSE Append(s, Obj(MkNote(id, fields), "update", c, Len(s) + 1))

\* notes.map((note) => (note.id === id ? { ...updatedNote, id } : note))
updateNoteResult(s, id, fields, c) ==
  [i \in 1..Len(s) |->
     IF s[i].id = id THEN Obj(MkNote(id, fields), "update", c, i) ELSE s[i]]

\* notes.find((note) => note.id === id); Absent stands for undefined
Absent == [id |-> 0]
getNote(s, id) ==
  IF id \in IdsOf(s)
  THEN s[CHOOSE i \in 1..Len(s) : s[i].id = id /\ \A j \in 1..(i - 1) : s[j].id # id]
  ELSE Absent

\* -------------------------------------------------------------------- Init
\* NotesProvider as constructed (the three useState calls), nothing sent yet
StoreInit ==
  /\ notes = <<>>
  /\ loading = TRUE
  /\ error = NullMessage
  /\ fetchState = "idle"
  /\ calls = <<>>
  /\ now = MaxServerId + 1
  /\ remote = [created |-> {}, updated |-> {}]
  /\ requests = <<>>
  /\ event = [op |-> "init"]

\* the store with the display layer at rest: Home shown, nothing typed
Init ==
  /\ StoreInit
  /\ pathname = "/"
  /\ urlId = NoId
  /\ title = <<>>
  /\ subheading = <<>>
  /\ content = <<>>
  /\ searchQuery = <<>>
  /\ submitted = {}

\* ----------------------------------------------------------------- actions
\* useEffect on mount: fetchNotes() up to its await
FetchNotesCall ==
  /\ fetchState = "idle"
  /\ loading' = TRUE
  /\ error' = NullMessage
  /\ fetchState' = "pending"
  /\ requests' = Append(requests, ListRequest)
  /\ event' = [op |-> "fetchNotes"]
  /\ UNCHANGED <<notes, calls, now, remote>>

\* mutant: no finally block, setLoading(false) only follows setNotes in the try
FetchNotesSettleNoFinally ==
  /\ fetchState = "pending"
  /\ \E resp \in ListResponses :
       LET r == getAllNotes(resp) IN
       /\ IF r.ok
          THEN /\ notes' = fetchedCollection(r.value)
               /\ error' = error
               /\ loading' = FALSE
               /\ fetchState' = "ready"
          ELSE /\ notes' = notes
               /\ error' = LoadErrorMessage
               /\ loading' = loading
               /\ fetchState' = "errored"
       /\ event' = [op |-> "fetchNotes.settle", resp |-> resp]
  /\ UNCHANGED <<calls, now, remote, requests>>

\* fetchNotes after the await: try / catch / finally
FetchNotesSettle ==
  /\ fetchState = "pending"
  /\ \E resp \in ListResponses :
       LET r == getAllNotes(resp) IN
       /\ IF r.ok
          THEN /\ notes' = fetchedCollection(r.value)
               /\ error' = error
               /\ fetchState' = "ready"
          ELSE /\ notes' = notes
               /\ error' = LoadErrorMessage
               /\ fetchState' = "errored"
       /\ loading' = FALSE
       /\ event' = [op |-> "fetchNotes.settle", resp |-> resp]
  /\ UNCHANGED <<calls, now, remote, requests>>

\* mutant: optimistic add, setNotes before the create is awaited
AddNoteCallOptimistic ==
  /\ fetchState # "idle"
  /\ Len(calls) < MaxCalls
  /\ \E f \in FieldSet, t \in NowValues :
       /\ t >= now
       /\ now' = t
       /\ calls' = Append(calls,
            [kind |-> "add", id |-> t, fields |-> f, snapshot |-> notes,
             status |-> "pending", error |-> NoError, inflight |-> PendingCalls])
       /\ notes' = addNoteResult(notes, Obj(MkNote(t, f), "add", Len(calls) + 1, 0))
       /\ requests' = Append(requests, CreateRequest(MkNote(t, f), Len(calls) + 1))
       /\ event' = [op |-> "addNote", call |-> Len(calls) + 1]
  /\ UNCHANGED <<loading, error, fetchState, remote>>

\* mutant: addNote shows the spinner while it saves, setLoading(true)
AddNoteCallLoading ==
  /\ fetchState # "idle"
  /\ Len(calls) < MaxCalls
  /\ \E f \in FieldSet, t \in NowValues :
       /\ t >= now
       /\ now' = t
       /\ calls' = Append(calls,
            [kind |-> "add", id |-> t, fields |-> f, snapshot |-> notes,
             status |-> "pending", error |-> NoError, inflight |-> PendingCalls])
       /\ requests' = Append(requests, CreateRequest(MkNote(t, f), Len(calls) + 1))
       /\ event' = [op |-> "addNote", call |-> Len(calls) + 1]
  /\ loading' = TRUE
  /\ UNCHANGED <<notes, error, fetchState, remote>>

\* addNote(note) up to its await: build newNote, send the create request
addNote(note) ==
  /\ Len(calls) < MaxCalls
  /\ \E t \in NowValues :
       /\ t >= now
       /\ now' = t
       /\ calls' = Append(calls,
            [kind |-> "add", id |-> t, fields |-> note, snapshot |-> notes,
             status |-> "pending", error |-> NoError, inflight |-> PendingCalls])
       /\ requests' = Append(requests, CreateRequest(MkNote(t, note), Len(calls) + 1))
       /\ event' = [op |-> "addNote", call |-> Len(calls) + 1]
  /\ UNCHANGED <<notes, loading, error, fetchState, remote>>

\* addNote called by any consumer of the context, once the provider is mounted
AddNoteCall ==
  /\ fetchState # "idle"
  /\ \E f \in FieldSet : addNote(f)

\* mutant: setNotes runs although the create failed (no rollback)
addNoteAfterAwaitNoRollback(c, r) ==
  [notes |-> addNoteResult(calls[c].snapshot, NewNote(c)),
   status |-> IF r.ok THEN "resolved" ELSE "rejected",
   error |-> IF r.ok THEN NoError ELSE r.error]

\* mutant: functional update, setNotes((prev) => [newNote, ...prev])
addNoteAfterAwaitFunctional(c, r) ==
  IF r.ok
  THEN [notes |-> addNoteResult(notes, NewNote(c)),
        status |-> "resolved", error |-> NoError]
  ELSE [notes |-> notes, status |-> "rejected", error |-> r.error]

\* mutant: the store keeps the note the remote client returned,
\* const saved = await notesService.addNote(newNote); setNotes([saved, ...notes])
addNoteAfterAwaitEcho(c, r) ==
  IF r.ok
  THEN [notes |-> addNoteResult(calls[c].snapshot,
                    IF r.value.t = "note" THEN Obj(r.value.v, "add", c, 0) ELSE NewNote(c)),
        status |-> "resolved", error |-> NoError]
  ELSE [notes |-> notes, status |-> "rejected", error |-> r.error]

\* addNote after the await (try / catch): what the continuation leaves behind
\* when the awaited notesService.addNote gave outcome r
addNoteAfterAwait(c, r) ==
  IF r.ok
  THEN [notes |-> addNoteResult(calls[c].snapshot, NewNote(c)),
        status |-> "resolved", error |-> NoError]
  ELSE [notes |-> notes, status |-> "rejected", error |-> r.error]

\* mutant: a failed add is reported through the session error, setError(...)
AddNoteSettleSetsError ==
  \E c \in PendingCalls :
    /\ calls[c].kind = "add"
    /\ \E resp \in WriteResponses(Wire(NewNote(c))) :
         LET after == addNoteAfterAwait(c, svcAddNote(Wire(NewNote(c)), resp)) IN
         /\ notes' = after.notes
         /\ calls' = [calls EXCEPT ![c].status = after.status,
                                   ![c].error = after.error,
                                   ![c].snapshot = <<>>]
         /\ remote' = IF resp.kind = "http" /\ resp.ok
                      THEN [remote EXCEPT !.created = @ \cup {Wire(NewNote(c))}]
                      ELSE remote
         /\ error' = IF after.status = "rejected" THEN "Failed to add note." ELSE error
         /\ event' = [op |-> "addNote.settle", call |-> c, resp |-> resp]
    /\ UNCHANGED <<loading, fetchState, now, requests>>

\* addNote after the await: setNotes on success, rethrow on failure
AddNoteSettle ==
  \E c \in PendingCalls :
    /\ calls[c].kind = "add"
    /\ \E resp \in WriteResponses(Wire(NewNote(c))) :
         LET after == addNoteAfterAwait(c, svcAddNote(Wire(NewNote(c)), resp)) IN
         /\ notes' = after.notes
         /\ calls' = [calls EXCEPT ![c].status = after.status,
                                   ![c].error = after.error,
                                   ![c].snapshot = <<>>]
         /\ remote' = IF resp.kind = "http" /\ resp.ok
                      THEN [remote EXCEPT !.created = @ \cup {Wire(NewNote(c))}]
                      ELSE remote
         /\ event' = [op |-> "addNote.settle", call |-> c, resp |-> resp]
    /\ UNCHANGED <<loading, error, fetchState, now, requests>>

\* mutant: deleteNote also tells the server, fetch(".../delete-note")
DeleteNoteRemote ==
  /\ fetchState # "idle"
  /\ \E id \in AllIds :
       /\ notes' = deleteNoteResult(notes, id)
       /\ requests' = Append(requests,
            [method |-> "DELETE", path |-> "/delete-note", body |-> id, call |-> 0])
       /\ event' = [op |-> "deleteNote", id |-> id, held |-> (id \in IdsOf(notes))]
  /\ UNCHANGED <<loading, error, fetchState, calls, now, remote>>

\* deleteNote: synchronous, local only
DeleteNote ==
  /\ fetchState # "idle"
  /\ \E id \in AllIds :
       /\ notes' = deleteNoteResult(notes, id)
       /\ event' = [op |-> "deleteNote", id |-> id, held |-> (id \in IdsOf(notes))]
  /\ UNCHANGED <<loading, error, fetchState, calls, now, remote, requests>>

\* updateNote(id, updatedNote) up to its await: send the update request
updateNote(id, updatedNote) ==
  /\ Len(calls) < MaxCalls
  /\ calls' = Append(calls,
       [kind |-> "update", id |-> id, fields |-> updatedNote, snapshot |-> notes,
        status |-> "pending", error |-> NoError, inflight |-> PendingCalls])
  /\ requests' = Append(requests, UpdateRequest(id, updatedNote, Len(calls) + 1))
  /\ event' = [op |-> "updateNote", call |-> Len(calls) + 1]
  /\ UNCHANGED <<notes, loading, error, fetchState, now, remote>>

\* updateNote called by any consumer of the context, once the provider is mounted
UpdateNoteCall ==
  /\ fetchState # "idle"
  /\ \E id \in AllIds, f \in FieldSet : updateNote(id, f)

\* mutant: setNotes runs although the update failed (no rollback)
updateNoteAfterAwaitNoRollback(c, r) ==
  [notes |-> updateNoteResult(calls[c].snapshot, calls[c].id, calls[c].fields, c),
   status |-> IF r.ok THEN "resolved" ELSE "rejected",
   error |-> IF r.ok THEN NoError ELSE r.error]

\* mutant: the matching note is replaced by the note the remote client
\* returned, notes.map((note) => (note.id === id ? saved : note))
updateNoteAfterAwaitEcho(c, r) ==
  IF r.ok
  THEN [notes |-> [i \in 1..Len(calls[c].snapshot) |->
                     IF calls[c].snapshot[i].id = calls[c].id /\ r.value.t = "note"
                     THEN Obj(r.value.v, "update", c, i)
                     ELSE calls[c].snapshot[i]],
        status |-> "resolved", error |-> NoError]
  ELSE [notes |-> notes, status |-> "rejected", error |-> r.error]

\* updateNote after the await (try / catch): what the continuation leaves
\* behind when the awaited notesService.updateNote gave outcome r
updateNoteAfterAwait(c, r) ==
  IF r.ok
  THEN [notes |-> updateNoteResult(calls[c].snapshot, calls[c].id, calls[c].fields, c),
        status |-> "resolved", error |-> NoError]
  ELSE [notes |-> notes, status |-> "rejected", error |-> r.error]

\* mutant: a failed update request is sent once more before the call settles
UpdateNoteSettleRetry ==
  \E c \in PendingCalls :
    /\ calls[c].kind = "update"
    /\ \E resp \in WriteResponses(MkNote(calls[c].id, calls[c].fields)) :
         LET outcome == svcUpdateNote(calls[c].id, calls[c].fields, resp)
             after == updateNoteAfterAwait(c, outcome)
             sent == { i \in DOMAIN requests : requests[i].call = c }
             retry == ~outcome.ok /\ Cardinality(sent) = 1 IN
         /\ notes' = IF retry THEN notes ELSE after.notes
         /\ calls' = IF retry THEN calls
                      ELSE [calls EXCEPT ![c].status = after.status,
                                         ![c].error = after.error,
                                         ![c].snapshot = <<>>]
         /\ requests' = IF retry
                         THEN Append(requests, UpdateRequest(calls[c].id, calls[c].fields, c))
                         ELSE requests
         /\ remote' = IF resp.kind = "http" /\ resp.ok
                      THEN [remote EXCEPT !.updated = @ \cup {MkNote(calls[c].id, calls[c].fields)}]
                      ELSE remote
         /\ event' = [op |-> "updateNote.settle", call |-> c, resp |-> resp]
    /\ UNCHANGED <<loading, error, fetchState, now>>

\* updateNote after the await: setNotes on success, rethrow on failure
UpdateNoteSettle ==
  \E c \in PendingCalls :
    /\ calls[c].kind = "update"
    /\ \E resp \in WriteResponses(MkNote(calls[c].id, calls[c].fields)) :
         LET after == updateNoteAfterAwait(c, svcUpdateNote(calls[c].id, calls[c].fields, resp)) IN
         /\ notes' = after.notes
         /\ calls' = [calls EXCEPT ![c].status = after.status,
                                   ![c].error = after.error,
                                   ![c].snapshot = <<>>]
         /\ remote' = IF resp.kind = "http" /\ resp.ok
                      THEN [remote EXCEPT !.updated = @ \cup {MkNote(calls[c].id, calls[c].fields)}]
                      ELSE remote
         /\ event' = [op |-> "updateNote.settle", call |-> c, resp |-> resp]
    /\ UNCHANGED <<loading, error, fetchState, now, requests>>

\* the store driven by any caller; the display layer stays as it is
Next ==
  \/ FetchNotesCall /\ UNCHANGED display
  \/ FetchNotesSettle /\ UNCHANGED display
  \/ AddNoteCall /\ UNCHANGED display
  \/ AddNoteSettle /\ UNCHANGED display
  \/ DeleteNote /\ UNCHANGED display
  \/ UpdateNoteCall /\ UNCHANGED display
  \/ UpdateNoteSettle /\ UNCHANGED display

Spec == Init /\ [][Next]_vars

\* ------------------------------------------------- the remote client alone
\* Each action is one complete call of a notesService function: the request
\* it sends, the response it gets and the outcome it gives its caller.
ClientStatuses == {200, 201, 400} \cup FailStatuses

\* bodies a response can carry: not JSON at all, or a JSON value
ListBodies ==
  {NotJson, JNull, JString, JMessage, JEnvelope(JNull), JEnvelope(JString)}
    \cup { JArray(L) : L \in ServerLists }
    \cup { JEnvelope(JArray(L)) : L \in ServerLists }
    \cup { JEnvelope(JNoteValue(L[1])) : L \in ServerLists \ {<<>>} }

WriteBodies(sent) ==
  {NotJson, JNull, JString, JMessage, JArray(<<>>), JNoteValue(sent),
   JEnvelope(JNull), JEnvelope(JString)}
    \cup { JEnvelope(JNoteValue(n)) : n \in EchoNotes(sent) }

ClientResponses(bodies) ==
  {NetworkFailure} \cup { HttpResponse(st, b) : st \in ClientStatuses, b \in bodies }

ClientGetAllNotes ==
  /\ \E resp \in ClientResponses(ListBodies) :
       event' = [op |-> "notesService.getAllNotes", resp |-> resp,
                 outcome |-> getAllNotes(resp)]
  /\ requests' = <<ListRequest>>
  /\ UNCHANGED <<notes, loading, error, fetchState, calls, now, remote>>

ClientAddNote ==
  /\ \E id \in AllIds, f \in FieldSet :
       \E resp \in ClientResponses(WriteBodies(MkNote(id, f))) :
         /\ event' = [op |-> "notesService.addNote", note |-> MkNote(id, f),
                      resp |-> resp, outcome |-> svcAddNote(MkNote(id, f), resp)]
         /\ requests' = <<CreateRequest(MkNote(id, f), 0)>>
  /\ UNCHANGED <<notes, loading, error, fetchState, calls, now, remote>>

ClientUpdateNote ==
  /\ \E id \in AllIds, f \in FieldSet :
       \E resp \in ClientResponses(WriteBodies(MkNote(id, f))) :
         /\ event' = [op |-> "notesService.updateNote", id |-> id, fields |-> f,
                      resp |-> resp, outcome |-> svcUpdateNote(id, f, resp)]
         /\ requests' = <<UpdateRequest(id, f, 0)>>
  /\ UNCHANGED <<notes, loading, error, fetchState, calls, now, remote>>

ClientNext ==
  \/ ClientGetAllNotes /\ UNCHANGED display
  \/ ClientAddNote /\ UNCHANGED display
  \/ ClientUpdateNote /\ UNCHANGED display

ClientSpec == Init /\ [][ClientNext]_vars

\* ------------------------------------------------------ Home: search filter
UpperCase == <<"A", "B", "C", "E", "L", "R", "S", "T", "U", "V", "X", "Y", "Z">>
LowerCase == <<"a", "b", "c", "e", "l", "r", "s", "t", "u", "v", "x", "y", "z">>

\* String.prototype.toLowerCase
toLowerCase(str) ==
  [i \in 1..Len(str) |->
     IF \E k \in 1..Len(UpperCase) : UpperCase[k] = str[i]
     THEN LowerCase[CHOOSE k \in 1..Len(UpperCase) : UpperCase[k] = str[i]]
     ELSE str[i]]

\* String.prototype.includes
includes(str, search) ==
  \E k \in 0..(Len(str) - Len(search)) : \A j \in 1..Len(search) : str[k + j] = search[j]

\* mutant: the fields are compared as they are, note.title.includes(searchQuery)
filteredNotesCaseSensitive(ns, query) ==
  SelectSeq(ns, LAMBDA note :
    \/ includes(note.title, query)
    \/ includes(note.subheading, query)
    \/ includes(note.content, query))

\* const filteredNotes = notes.filter((note) => { ... })
filteredNotes(ns, query) ==
  SelectSeq(ns, LAMBDA note :
    LET q == toLowerCase(query) IN
    \/ includes(toLowerCase(note.title), q)
    \/ includes(toLowerCase(note.subheading), q)
    \/ includes(toLowerCase(note.content), q))

\* the collections Home is rendered with
HomeNotes ==
  { MkNote(1, ServerFields), MkNote(2, OtherServerFields) }
    \cup { MkNote(3, f) : f \in FieldSet }

HomeCollections == { fetchedCollection(L) : L \in SeqsUpTo(HomeNotes, MaxFetched) }

\* what the user types into the search bar
Queries ==
  { <<>>, <<"r", "e", "a", "c", "t">>, <<"R", "e", "A", "c", "T">>,
    <<"R", "E", "A", "C", "T">>, <<"n", " ", "r">>, <<"t", "r">>, <<"s">>,
    <<"V">>, <<"c">>, <<"q">> }

HomeInit ==
  /\ notes \in HomeCollections
  /\ loading = FALSE
  /\ error = NullMessage
  /\ fetchState = "ready"
  /\ calls = <<>>
  /\ now = MaxServerId + 1
  /\ remote = [created |-> {}, updated |-> {}]
  /\ requests = <<ListRequest>>
  /\ event = [op |-> "init"]
  /\ pathname = "/"
  /\ urlId = NoId
  /\ title = <<>>
  /\ subheading = <<>>
  /\ content = <<>>
  /\ searchQuery = <<>>
  /\ submitted = {}

\* onChange of the search bar: setSearchQuery(e.target.value), then Home
\* renders again and computes filteredNotes
SetSearchQuery ==
  /\ pathname = "/"
  /\ \E q \in Queries :
       /\ searchQuery' = q
       /\ event' = [op |-> "Home.render", filteredNotes |-> filteredNotes(notes, q)]
  /\ UNCHANGED <<notes, loading, error, fetchState, calls, now, remote, requests,
                 pathname, urlId, title, subheading, content, submitted>>

HomeNext == SetSearchQuery

HomeSpec == HomeInit /\ [][HomeNext]_vars

\* ---------------------------------------------------------------- NotePage
\* The app as the user drives it (App: NotesProvider around the routes): the
\* store is called by NotePage only, and NotePage's load effect runs after
\* every render in which one of its dependencies [id, mode, getNote,
\* navigate] changed; getNote is a new function in every render of
\* NotesProvider.
NoteRoutes == {"/add", "/note/:id", "/edit/:id"}

\* the ids a route can carry in its :id parameter
RouteIds(path) == IF path \in {"/note/:id", "/edit/:id"} THEN AllIds ELSE {NoId}

\* const mode = location.pathname.startsWith("/add") ? "add" : ... ? "edit" : "view"
mode(path) ==
  IF path = "/add" THEN "add" ELSE IF path = "/edit/:id" THEN "edit" ELSE "view"

WhiteSpace == {" ", "\t", "\n"}

\* String.prototype.trim
RECURSIVE trim(_)
trim(str) ==
  IF str = <<>> THEN <<>>
  ELSE IF Head(str) \in WhiteSpace THEN trim(Tail(str))
  ELSE IF str[Len(str)] \in WhiteSpace THEN trim(SubSeq(str, 1, Len(str) - 1))
  ELSE str

\* what the user types into a field of the form
TextInputs == { <<>>, <<" ">>, <<" ", "a">> }

BlankForm == [title |-> <<>>, subheading |-> <<>>, content |-> <<>>]

CurrentForm == [title |-> title, subheading |-> subheading, content |-> content]

\* what is on screen: a route, its :id, and the three fields of NotePage
Screen(path, id, form) ==
  [pathname |-> path, urlId |-> id, title |-> form.title,
   subheading |-> form.subheading, content |-> form.content]

\* Home is shown; NotePage is unmounted and its state is gone
HomeScreen == Screen("/", NoId, BlankForm)

Show(screen) ==
  /\ pathname' = screen.pathname
  /\ urlId' = screen.urlId
  /\ title' = screen.title
  /\ subheading' = screen.subheading
  /\ content' = screen.content

\* mutant: a missing note leaves the page as it is (no else branch)
loadNoteNoRedirect(s, path, id, form) ==
  IF path = "/" THEN HomeScreen
  ELSE IF (mode(path) = "view" \/ mode(path) = "edit") /\ id # NoId
       THEN LET note == getNote(s, id) IN
            IF note # Absent
            THEN Screen(path, id, FieldsOf(note))
            ELSE Screen(path, id, form)
       ELSE Screen(path, id, form)

\* NotePage's load effect, run on route path, with :id id, the collection s
\* its getNote reads and the three fields as they are: the screen it leaves
loadNote(s, path, id, form) ==
  IF path = "/" THEN HomeScreen
  ELSE IF (mode(path) = "view" \/ mode(path) = "edit") /\ id # NoId
       THEN LET note == getNote(s, id) IN
            IF note # Absent
            THEN Screen(path, id, FieldsOf(note))
            ELSE HomeScreen
       ELSE Screen(path, id, form)

\* the app is opened at any route (a deep link included)
PageInit ==
  /\ StoreInit
  /\ pathname \in {"/"} \cup NoteRoutes
  /\ urlId \in RouteIds(pathname)
  /\ title = <<>>
  /\ subheading = <<>>
  /\ content = <<>>
  /\ searchQuery = <<>>
  /\ submitted = {}

\* the first commit: the effects of the children run before those of the
\* parents, NotePage's load effect (on the empty collection) and then
\* NotesProvider's fetchNotes()
AppMount ==
  /\ FetchNotesCall
  /\ Show(loadNote(notes, pathname, urlId, CurrentForm))
  /\ UNCHANGED <<searchQuery, submitted>>

\* the location changes (a link, Back, Edit, Cancel, the address bar's
\* history): the route's page renders and NotePage's load effect runs.
\* Coming from Home, NotePage is mounted with empty fields; between two
\* NotePage routes the reconciler either keeps the instance or mounts anew.
Navigate ==
  /\ fetchState # "idle"
  /\ \E path \in {"/"} \cup NoteRoutes :
       \E id \in RouteIds(path) :
         \E form \in {BlankForm} \cup (IF pathname = "/" THEN {} ELSE {CurrentForm}) :
           /\ Show(loadNote(notes, path, id, form))
           /\ event' = [op |-> "navigate", to |-> path, id |-> id]
  /\ UNCHANGED <<notes, loading, error, fetchState, calls, now, remote, requests,
                 searchQuery, submitted>>

\* onChange of the title input
SetTitle ==
  /\ fetchState # "idle"
  /\ mode(pathname) \in {"add", "edit"}
  /\ \E value \in TextInputs : title' = value
  /\ event' = [op |-> "onChange"]
  /\ UNCHANGED <<notes, loading, error, fetchState, calls, now, remote, requests,
                 pathname, urlId, subheading, content, searchQuery, submitted>>

\* onChange of the subheading input
SetSubheading ==
  /\ fetchState # "idle"
  /\ mode(pathname) \in {"add", "edit"}
  /\ \E value \in TextInputs : subheading' = value
  /\ event' = [op |-> "onChange"]
  /\ UNCHANGED <<notes, loading, error, fetchState, calls, now, remote, requests,
                 pathname, urlId, title, content, searchQuery, submitted>>

\* onChange of the content textarea
SetContent ==
  /\ fetchState # "idle"
  /\ mode(pathname) \in {"add", "edit"}
  /\ \E value \in TextInputs : content' = value
  /\ event' = [op |-> "onChange"]
  /\ UNCHANGED <<notes, loading, error, fetchState, calls, now, remote, requests,
                 pathname, urlId, title, subheading, searchQuery, submitted>>

\* mutant: the fields are tested untrimmed, if (title && subheading && content)
handleSubmitNoTrim ==
  /\ fetchState # "idle"
  /\ mode(pathname) \in {"add", "edit"}
  /\ IF title # <<>> /\ subheading # <<>> /\ content # <<>>
     THEN /\ Cardinality(submitted) < MaxSubmits
          /\ IF mode(pathname) = "add"
             THEN addNote(CurrentForm)
             ELSE updateNote(urlId, CurrentForm)
          /\ submitted' = submitted \cup {Len(calls) + 1}
          /\ Show(HomeScreen)
     ELSE /\ event' = [op |-> "handleSubmit", valid |-> FALSE]
          /\ UNCHANGED <<notes, loading, error, fetchState, calls, now, remote, requests,
                         pathname, urlId, title, subheading, content, submitted>>
  /\ UNCHANGED searchQuery

\* onSubmit of the form: validate, call the store without keeping the
\* promise, navigate home
handleSubmit ==
  /\ fetchState # "idle"
  /\ mode(pathname) \in {"add", "edit"}
  /\ IF trim(title) # <<>> /\ trim(subheading) # <<>> /\ trim(content) # <<>>
     THEN /\ Cardinality(submitted) < MaxSubmits
          /\ IF mode(pathname) = "add"
             THEN addNote(CurrentForm)
             ELSE updateNote(urlId, CurrentForm)
          /\ submitted' = submitted \cup {Len(calls) + 1}
          /\ Show(HomeScreen)
     ELSE /\ event' = [op |-> "handleSubmit", valid |-> FALSE]
          /\ UNCHANGED <<notes, loading, error, fetchState, calls, now, remote, requests,
                         pathname, urlId, title, subheading, content, submitted>>
  /\ UNCHANGED searchQuery

\* NotesProvider rendered again with a new getNote: NotePage's load effect
\* runs on the new collection
Rerender ==
  /\ Show(loadNote(notes', pathname, urlId, CurrentForm))
  /\ UNCHANGED <<searchQuery, submitted>>

\* the initial fetch settles; setLoading(false) always renders again
PageFetchNotesSettle == FetchNotesSettle /\ Rerender

\* an addNote settles; setNotes renders again, a failure changes no state
PageAddNoteSettle ==
  /\ AddNoteSettle
  /\ IF calls'[event'.call].status = "resolved" THEN Rerender ELSE UNCHANGED display

\* an updateNote settles; setNotes renders again, a failure changes no state
PageUpdateNoteSettle ==
  /\ UpdateNoteSettle
  /\ IF calls'[event'.call].status = "resolved" THEN Rerender ELSE UNCHANGED display

PageNext ==
  \/ AppMount
  \/ Navigate
  \/ SetTitle
  \/ SetSubheading
  \/ SetContent
  \/ handleSubmit
  \/ PageFetchNotesSettle
  \/ PageAddNoteSettle
  \/ PageUpdateNoteSettle

PageSpec == PageInit /\ [][PageNext]_vars

\* ================================================================== claims
\* call c settles in this step
Settles(c) == calls[c].status = "pending" /\ calls'[c].status # "pending"

\* call c resolves (its promise fulfils) in this step
Resolves(c) == calls[c].status = "pending" /\ calls'[c].status = "resolved"

AddCalls == { c \in DOMAIN calls : calls[c].kind = "add" }
UpdateCalls == { c \in DOMAIN calls : calls[c].kind = "update" }

\* calls c and d were awaiting their remote requests at the same time
Overlap(c, d) == c \in calls[d].inflight \/ d \in calls[c].inflight

\* C1: whenever the remote create of an addNote call fails, the step that
\* delivers the failure leaves the collection as it was and rejects the
\* call's promise with the error the remote client threw.
AllOrNothingAdd ==
  [][\A c \in AddCalls :
       (Settles(c) /\ ~svcAddNote(Wire(NewNote(c)), event'.resp).ok)
         => /\ notes' = notes
            /\ calls'[c].status = "rejected"
            /\ calls'[c].error = svcAddNote(Wire(NewNote(c)), event'.resp).error]_vars

\* a failed create was delivered to a store that holds notes
AddRejectedWitness ==
  /\ event.op = "addNote.settle"
  /\ calls[event.call].status = "rejected"
  /\ calls[event.call].error = HttpError(500)
  /\ Len(notes) > 0

\* C2: whenever the remote update of an updateNote(id, fields) call fails,
\* the step that delivers the failure leaves the collection untouched (the
\* note with that id keeps its fields) and rejects the call's promise with
\* the error the remote client threw.
AllOrNothingUpdate ==
  [][\A c \in UpdateCalls :
       (Settles(c) /\ ~svcUpdateNote(calls[c].id, calls[c].fields, event'.resp).ok)
         => /\ notes' = notes
            /\ getNote(notes', calls[c].id) = getNote(notes, calls[c].id)
            /\ calls'[c].status = "rejected"
            /\ calls'[c].error =
                 svcUpdateNote(calls[c].id, calls[c].fields, event'.resp).error]_vars

\* a failed update of a held note, with fields other than the note's, was delivered
UpdateRejectedWitness ==
  /\ event.op = "updateNote.settle"
  /\ calls[event.call].status = "rejected"
  /\ calls[event.call].error = TypeError
  /\ calls[event.call].id \in IdsOf(notes)
  /\ FieldsOf(getNote(notes, calls[event.call].id)) # calls[event.call].fields

\* C3: no optimistic update.  While a call awaits its remote request no Note
\* object made by that call is in the collection; an object made by addNote
\* (updateNote) is in the collection only if the call has resolved and the
\* server acknowledged the create (update) with a success status.
NoOptimisticUpdate ==
  /\ \A c \in PendingCalls : \A i \in 1..Len(notes) : notes[i].obj[2] # c
  /\ \A i \in 1..Len(notes) :
       /\ notes[i].obj[1] = "add" =>
            /\ calls[notes[i].obj[2]].status = "resolved"
            /\ Wire(notes[i]) \in remote.created
       /\ notes[i].obj[1] = "update" =>
            /\ calls[notes[i].obj[2]].status = "resolved"
            /\ Wire(notes[i]) \in remote.updated

\* an add is awaiting its create while the collection already holds the note
\* of an earlier, resolved add
PendingAddWitness ==
  \E c \in PendingCalls :
    /\ calls[c].kind = "add"
    /\ \E i \in 1..Len(notes) : notes[i].obj[1] = "add"

\* C4: last writer wins.  When an addNote call c resolves after an
\* overlapping addNote call d has resolved, the collection becomes c's note
\* prepended to c's call-time snapshot; d's note is absent from it although
\* the server acknowledged both creates.
LastWriterWins ==
  [][\A c, d \in AddCalls :
       (c # d /\ Overlap(c, d) /\ calls[d].status = "resolved" /\ Resolves(c))
         => /\ notes' = <<NewNote(c)>> \o calls[c].snapshot
            /\ NewNote(d).obj \notin ObjsOf(notes')
            /\ Wire(NewNote(c)) \in remote'.created
            /\ Wire(NewNote(d)) \in remote'.created]_vars

\* two overlapping adds with different ids have both resolved, and only the
\* note of the one that resolved last is held
LostAddWitness ==
  /\ Len(calls) = 2
  /\ \A c \in 1..2 : calls[c].kind = "add" /\ calls[c].status = "resolved"
  /\ 1 \in calls[2].inflight
  /\ calls[1].id # calls[2].id
  /\ event.op = "addNote.settle"
  /\ event.call = 1
  /\ ObjsOf(notes) = {NewNote(1).obj}
  /\ {Wire(NewNote(1)), Wire(NewNote(2))} \subseteq remote.created

\* C5: prepend order.  A resolving addNote puts its new note at the head and
\* the notes of its call-time snapshot after it, in unchanged order (the
\* notes held just before, when nothing changed the collection since the
\* call); so add(A) on an empty store followed, after it resolved, by add(B)
\* gives [B, A].
PrependOrder ==
  [][\A c \in AddCalls :
       Resolves(c)
         => /\ Head(notes') = NewNote(c)
            /\ Tail(notes') = calls[c].snapshot
            /\ (notes = calls[c].snapshot => Tail(notes') = notes)
            /\ (/\ c = 2
                /\ 1 \in AddCalls
                /\ calls[2].snapshot = <<NewNote(1)>>)
                 => notes' = <<NewNote(2), NewNote(1)>>]_vars

\* add(A) then add(B) on an empty store: the collection is [B, A]
PrependWitness ==
  /\ Len(calls) = 2
  /\ calls[1].fields.title = <<"A">>
  /\ calls[2].fields.title = <<"X">>
  /\ calls[1].id < calls[2].id
  /\ calls[2].inflight = {}
  /\ notes = <<NewNote(2), NewNote(1)>>
\* C6: uniqueness under add: any two notes of the collection that were made
\* by addNote have distinct ids.
UniqueIdsUnderAdd ==
  \A i, j \in 1..Len(notes) :
    (i # j /\ notes[i].obj[1] = "add" /\ notes[j].obj[1] = "add")
      => notes[i].id # notes[j].id

\* C7: in every reachable state no two notes of the collection share an id.
UniqueIds ==
  \A i, j \in 1..Len(notes) : i # j => notes[i].id # notes[j].id

\* C8: update preserves id.  When updateNote(id, fields) resolves for an id
\* its call-time snapshot holds, getNote(id) then returns a note with that id
\* and the given title, subheading and content, whatever the remote echoed.
UpdatePreservesId ==
  [][\A c \in UpdateCalls :
       (Resolves(c) /\ calls[c].id \in IdsOf(calls[c].snapshot))
         => /\ getNote(notes', calls[c].id).id = calls[c].id
            /\ FieldsOf(getNote(notes', calls[c].id)) = calls[c].fields]_vars

\* an update of a held note resolved on an echo that carries another id, and
\* it changed the note's fields
UpdateEchoWitness ==
  /\ event.op = "updateNote.settle"
  /\ calls[event.call].status = "resolved"
  /\ HasDataField(event.resp.body)
  /\ event.resp.body.data.v.id # calls[event.call].id
  /\ \E i \in 1..Len(notes) :
       /\ notes[i].obj = <<"update", event.call, i>>
       /\ notes[i] = getNote(notes, calls[event.call].id)
       /\ notes[i].title # LearnReact

\* C9: update frame.  A resolving updateNote(id, fields) yields a collection
\* with the length and the sequence of ids of its call-time snapshot (the
\* collection held just before, when nothing changed it since the call), in
\* which every note whose id differs from id is the snapshot's note.
UpdateFrame ==
  [][\A c \in UpdateCalls :
       Resolves(c)
         => /\ Len(notes') = Len(calls[c].snapshot)
            /\ \A i \in 1..Len(calls[c].snapshot) :
                 /\ notes'[i].id = calls[c].snapshot[i].id
                 /\ calls[c].snapshot[i].id # calls[c].id
                      => notes'[i] = calls[c].snapshot[i]
            /\ notes = calls[c].snapshot
                 => /\ Len(notes') = Len(notes)
                    /\ \A i \in 1..Len(notes) :
                         notes[i].id # calls[c].id => notes'[i] = notes[i]]_vars

\* an update replaced the second of two notes and left the first one alone
UpdateFrameWitness ==
  /\ event.op = "updateNote.settle"
  /\ calls[event.call].status = "resolved"
  /\ Len(notes) = 2
  /\ notes[1].id # calls[event.call].id
  /\ notes[1].obj[1] # "update"
  /\ notes[2].obj = <<"update", event.call, 2>>

\* C10: idempotent remove.  deleteNote(id) for an id no note of the
\* collection has leaves the collection unchanged, and deleting the same id
\* again after any deleteNote(id) changes nothing.
IdempotentRemove ==
  [][event'.op = "deleteNote"
       => /\ event'.id \notin IdsOf(notes) => notes' = notes
          /\ deleteNoteResult(notes', event'.id) = notes']_vars

\* deleteNote ran for an id that no note of a non-empty collection has
DeleteAbsentWitness ==
  /\ event.op = "deleteNote"
  /\ ~event.held
  /\ Len(notes) = 2
\* position of the Note object o in the collection s
PosOf(s, o) == CHOOSE i \in 1..Len(s) : s[i].obj = o

\* C11: remove is local-only and in place.  The step in which deleteNote(id)
\* is called leaves no note with that id in the collection, keeps exactly
\* the other notes, in their relative order, sends no HTTP request, starts
\* no pending call and leaves loading and error as they were.
RemoveLocalInPlace ==
  [][event'.op = "deleteNote"
       => /\ event'.id \notin IdsOf(notes')
          /\ ObjsOf(notes') = { notes[i].obj : i \in { k \in 1..Len(notes) : notes[k].id # event'.id } }
          /\ \A i \in 1..Len(notes') : notes'[i] = notes[PosOf(notes, notes'[i].obj)]
          /\ \A i, j \in 1..Len(notes') :
               i < j => PosOf(notes, notes'[i].obj) < PosOf(notes, notes'[j].obj)
          /\ requests' = requests
          /\ calls' = calls
          /\ loading' = loading
          /\ error' = error]_vars

\* deleteNote removed a held note and two other notes stay
DeleteHeldWitness ==
  /\ event.op = "deleteNote"
  /\ event.held
  /\ Len(notes) = 2
  /\ notes[1].id # notes[2].id
\* C12: initial load success.  The store is created with notes = [],
\* loading = true and error unset; right after the initial getAllNotes
\* resolved to a list L, loading is false, error is unset and the collection
\* is exactly L: the same notes in the same order.
InitialLoadSuccess ==
  /\ fetchState = "idle" => (notes = <<>> /\ loading /\ error = NullMessage)
  /\ (event.op = "fetchNotes.settle" /\ getAllNotes(event.resp).ok)
       => /\ ~loading
          /\ error = NullMessage
          /\ fetchState = "ready"
          /\ Len(notes) = Len(getAllNotes(event.resp).value)
          /\ \A i \in 1..Len(notes) : Wire(notes[i]) = getAllNotes(event.resp).value[i]

\* the fetch delivered two different notes after an add had already resolved
LoadedWitness ==
  /\ event.op = "fetchNotes.settle"
  /\ fetchState = "ready"
  /\ Len(notes) = 2
  /\ notes[1].title = SetupBootstrap
  /\ notes[2].title = LearnReact
  /\ \E c \in DOMAIN calls : calls[c].kind = "add" /\ calls[c].status = "resolved"
\* the initial getAllNotes has settled
FetchSettled == fetchState \in {"ready", "errored"}

MutationsKeepFlags ==
  [][/\ event'.op \in {"addNote", "addNote.settle", "updateNote", "updateNote.settle",
                       "deleteNote"}
          => (loading' = loading /\ error' = error)
     /\ FetchSettled
          => (loading' = loading /\ error' = error /\ fetchState' = fetchState)]_vars

\* after a successful load an add failed, and error is still unset
FailedAddAfterLoadWitness ==
  /\ fetchState = "ready"
  /\ event.op = "addNote.settle"
  /\ calls[event.call].status = "rejected"
  /\ error = NullMessage
  /\ ~loading

\* C15: loading is true exactly during the initial fetch: true in every
\* state up to the step in which the initial getAllNotes settles, false in
\* every state after it, and once false it never becomes true again.
LoadingOnlyDuringFetch ==
  [][/\ loading <=> ~FetchSettled
     /\ loading' <=> ~FetchSettled'
     /\ ~loading => ~loading']_vars

\* mutations run while the fetch is pending (loading) ...
StillLoadingWitness ==
  /\ loading
  /\ fetchState = "pending"
  /\ Len(calls) = 2
  /\ PendingCalls = {}

\* C16: loading liveness.  If the initial getAllNotes eventually settles,
\* loading eventually becomes false; if it never settles, loading is true in
\* every state; and a mutation whose remote call never settles never puts
\* its change into the collection.
LoadingLiveness ==
  /\ (<>FetchSettled) => <>(~loading)
  /\ ([]~FetchSettled) => []loading
  /\ \A c \in 1..MaxCalls :
       ([](c \in DOMAIN calls => calls[c].status = "pending"))
         => [](\A i \in 1..Len(notes) : notes[i].obj[2] # c)

\* ... and after it has settled (not loading)
NotLoadingWitness ==
  /\ ~loading
  /\ fetchState = "errored"
  /\ PendingCalls # {}
  /\ event.op = "deleteNote"
\* the last client call got a response with a success status
ClientSuccess == event.resp.kind = "http" /\ event.resp.status >= 200 /\ event.resp.status <= 299

\* the last client call got a response with a non-success status
ClientFailure == event.resp.kind = "http" /\ ~(event.resp.status >= 200 /\ event.resp.status <= 299)

\* the body is an object whose data field is an array
IsDataArray(body) == body.t = "object" /\ body.hasData /\ body.data.t = "array"

\* C17 as stated: for every success-status response getAllNotes returns the
\* body's data array, or the empty sequence for every other body, never
\* failing.
LenientListAnyBody ==
  (event.op = "notesService.getAllNotes" /\ ClientSuccess)
    => /\ event.outcome.ok
       /\ event.outcome.value =
            IF event.resp.body # NotJson /\ IsDataArray(event.resp.body)
            THEN event.resp.body.data.v ELSE <<>>

\* C17 (amended): for every success-status response whose body parses as
\* JSON, getAllNotes returns the data array of an envelope that has one and
\* the empty sequence for every other JSON value; a body that is not JSON
\* makes it fail with the parse error.
LenientListDegradation ==
  (event.op = "notesService.getAllNotes" /\ ClientSuccess)
    => IF event.resp.body = NotJson
       THEN event.outcome = Throw(SyntaxError)
       ELSE /\ event.outcome.ok
            /\ event.outcome.value =
                 IF IsDataArray(event.resp.body) THEN event.resp.body.data.v ELSE <<>>

\* getAllNotes got { message: "ok" } with status 200 and returned []
LenientListWitness ==
  /\ event.op = "notesService.getAllNotes"
  /\ event.resp = HttpResponse(200, JMessage)
  /\ event.outcome = Return(<<>>)

\* C18: a non-success status is an error for every client operation:
\* getAllNotes, addNote and updateNote each fail with the error that carries
\* the response's status code, whatever the body, and return no value.
NonSuccessIsError ==
  (event.op \in {"notesService.getAllNotes", "notesService.addNote",
                 "notesService.updateNote"} /\ ClientFailure)
    => /\ ~event.outcome.ok
       /\ event.outcome.error.name = "Error"
       /\ event.outcome.error.status = event.resp.status

\* updateNote got status 404 with a well-formed envelope and failed with 404
NonSuccessWitness ==
  /\ event.op = "notesService.updateNote"
  /\ event.resp.kind = "http"
  /\ event.resp.status = 404
  /\ HasDataField(event.resp.body)
  /\ event.outcome = Throw(HttpError(404))

\* the note a client write call sent in its request
SentNote ==
  IF event.op = "notesService.addNote"
  THEN event.note
  ELSE [id |-> event.id, title |-> event.fields.title,
        subheading |-> event.fields.subheading, content |-> event.fields.content]

RequestsOf(c) == { i \in DOMAIN requests : requests[i].call = c }

\* C20: no retry. The initial fetch and every addNote and updateNote call
\* of the store issue exactly one HTTP request each, of the call's own
\* method and path, whether the call is pending, resolved or rejected; the
\* log holds no other request, so a failed request is never sent again.
NoRetry ==
  /\ Cardinality(RequestsOf(0)) = IF fetchState = "idle" THEN 0 ELSE 1
  /\ \A i \in RequestsOf(0) : requests[i] = ListRequest
  /\ \A c \in DOMAIN calls :
       /\ Cardinality(RequestsOf(c)) = 1
       /\ \A i \in RequestsOf(c) :
            requests[i].path = IF calls[c].kind = "add" THEN "/add-note" ELSE "/update-note"
  /\ Len(requests) = Len(calls) + IF fetchState = "idle" THEN 0 ELSE 1

\* the fetch, an add and an update have all failed, with three requests sent
AllFailedWitness ==
  /\ fetchState = "errored"
  /\ \E c \in AddCalls, d \in UpdateCalls :
       calls[c].status = "rejected" /\ calls[d].status = "rejected"
  /\ Len(requests) = 3
\* C26: a delete can be undone by a pending mutation.  When an addNote or
\* updateNote call resolves, the collection is rebuilt from the call's
\* snapshot, so every id the snapshot holds that is no longer in the
\* collection (its note was deleted while the call was awaiting) is in the
\* collection again, and, unless the update replaces it, as the very note
\* object of the snapshot.
DeleteUndone ==
  [][\A c \in DOMAIN calls :
       Resolves(c)
         => /\ notes' = IF calls[c].kind = "add"
                        THEN <<NewNote(c)>> \o calls[c].snapshot
                        ELSE updateNoteResult(calls[c].snapshot, calls[c].id, calls[c].fields, c)
            /\ \A i \in 1..Len(calls[c].snapshot) :
                 calls[c].snapshot[i].id \notin IdsOf(notes)
                   => /\ calls[c].snapshot[i].id \in IdsOf(notes')
                      /\ (calls[c].kind = "add" \/ calls[c].snapshot[i].id # calls[c].id)
                           => calls[c].snapshot[i].obj \in ObjsOf(notes')]_vars

\* add 1 was called on [n]; n was deleted while it was awaiting (call 2, made
\* while add 1 was still awaiting, saw an empty collection); add 1 has just
\* resolved and n is held again
DeleteUndoneWitness ==
  /\ Len(calls) = 2
  /\ calls[1].kind = "add"
  /\ calls[1].status = "resolved"
  /\ event.op = "addNote.settle"
  /\ event.call = 1
  /\ calls[2].status = "pending"
  /\ calls[2].inflight = {1}
  /\ calls[2].snapshot = <<>>
  /\ Len(notes) = 2
  /\ notes[1] = NewNote(1)
  /\ notes[2].obj = <<"fetch", 0, 1>>

\* C27: an add overlapping the initial fetch never coexists with the fetched
\* notes.  When the fetch succeeds after the add (the only call) has
\* resolved, the collection is exactly the fetched list and holds no note
\* made by addNote; when an add whose snapshot is the empty collection
\* resolves, the collection is exactly its single new note and holds no
\* fetched note.
AddOverlappingFetch ==
  [][/\ (/\ event'.op = "fetchNotes.settle"
         /\ fetchState' = "ready"
         /\ Len(calls) = 1
         /\ calls[1].kind = "add"
         /\ calls[1].status = "resolved")
          => /\ \A i \in 1..Len(notes') : notes'[i].obj[1] = "fetch"
             /\ Len(notes') = Len(getAllNotes(event'.resp).value)
             /\ \A i \in 1..Len(notes') : Wire(notes'[i]) = getAllNotes(event'.resp).value[i]
     /\ \A c \in AddCalls :
          (Resolves(c) /\ calls[c].snapshot = <<>>) => notes' = <<NewNote(c)>>]_vars

\* the create completed first and the fetch then overwrote it: the only
\* call, an add, has resolved, the fetch settled after it and the collection
\* is the two fetched notes
AddThenFetchWitness ==
  /\ event.op = "fetchNotes.settle"
  /\ fetchState = "ready"
  /\ Len(calls) = 1
  /\ calls[1].kind = "add"
  /\ calls[1].status = "resolved"
  /\ Wire(NewNote(1)) \in remote.created
  /\ Len(notes) = 2
  /\ \A i \in 1..2 : notes[i].obj = <<"fetch", 0, i>>

\* C28: the store ignores the server's echo on add.  Right after an addNote
\* call resolved, the head of the collection is the Note object that call
\* built: the given fields with the id the client assigned, whatever note or
\* id the remote client returned.
AddIgnoresEcho ==
  (event.op = "addNote.settle" /\ calls[event.call].status = "resolved")
    => /\ Len(notes) > 0
       /\ notes[1].obj = <<"add", event.call, 0>>
       /\ notes[1].id = calls[event.call].id
       /\ FieldsOf(notes[1]) = calls[event.call].fields

\* an add resolved on an echo whose id the server rewrote, and the note held
\* has the client's id
AddEchoWitness ==
  /\ event.op = "addNote.settle"
  /\ calls[event.call].status = "resolved"
  /\ HasDataField(event.resp.body)
  /\ event.resp.body.data.v.id # calls[event.call].id
  /\ notes[1].id = calls[event.call].id

\* C29: update of an absent id is a local no-op that still hits the server.
\* Every updateNote call has sent its update request; when a call for an id
\* its snapshot does not hold resolves, the promise fulfils without error,
\* the server has acknowledged the update, and the collection is the
\* call-time snapshot: the same notes in the same order, none inserted.
UpdateAbsentNoOp ==
  [][\A c \in UpdateCalls :
       /\ \E i \in RequestsOf(c) :
            requests[i] = UpdateRequest(calls[c].id, calls[c].fields, c)
       /\ (Resolves(c) /\ calls[c].id \notin IdsOf(calls[c].snapshot))
            => /\ calls'[c].error = NoError
               /\ MkNote(calls[c].id, calls[c].fields) \in remote'.updated
               /\ notes' = calls[c].snapshot
               /\ calls[c].id \notin IdsOf(notes')]_vars

\* an update of an id nobody holds resolved on a store of two fetched notes
UpdateAbsentWitness ==
  /\ event.op = "updateNote.settle"
  /\ calls[event.call].status = "resolved"
  /\ calls[event.call].id \notin IdsOf(notes)
  /\ MkNote(calls[event.call].id, calls[event.call].fields) \in remote.updated
  /\ Len(notes) = 2
  /\ \A i \in 1..2 : notes[i].obj = <<"fetch", 0, i>>
\* characters a and b are the same letter in either case, or the same character
SameIgnoringCase(a, b) ==
  \/ a = b
  \/ \E k \in 1..Len(UpperCase) : {a, b} = {UpperCase[k], LowerCase[k]}

\* str contains search as a substring, compared case-insensitively
ContainsIgnoringCase(str, search) ==
  \E k \in 0..(Len(str) - Len(search)) :
    \A j \in 1..Len(search) : SameIgnoringCase(str[k + j], search[j])

\* the positions of the notes of s that match the query q
Matching(s, q) ==
  { i \in 1..Len(s) :
      \/ ContainsIgnoringCase(s[i].title, q)
      \/ ContainsIgnoringCase(s[i].subheading, q)
      \/ ContainsIgnoringCase(s[i].content, q) }

\* C22: search filter.  For every collection and every query Home's filter
\* yields exactly the notes whose title, subheading or content contains the
\* query as a substring compared case-insensitively, in collection order:
\* its k-th note is the note at the k-th matching position.  The empty query
\* yields every note, and filtering leaves the store's collection unchanged.
SearchFilter ==
  [][event'.op = "Home.render"
       => /\ Len(event'.filteredNotes) = Cardinality(Matching(notes, searchQuery'))
          /\ \A k \in 1..Len(event'.filteredNotes) :
               \E i \in Matching(notes, searchQuery') :
                 /\ Cardinality({ j \in Matching(notes, searchQuery') : j < i }) = k - 1
                 /\ event'.filteredNotes[k] = notes[i]
          /\ searchQuery' = <<>> => event'.filteredNotes = notes
          /\ notes' = notes]_vars

\* query "ReAcT" over [Learn React, Setup Bootstrap] yields only the first
SearchFilterWitness ==
  /\ event.op = "Home.render"
  /\ searchQuery = <<"R", "e", "A", "c", "T">>
  /\ Len(notes) = 2
  /\ notes[1].title = LearnReact
  /\ notes[2].title = SetupBootstrap
  /\ event.filteredNotes = <<notes[1]>>
\* C21 as stated: mutation failures are handled by the display layer.  No
\* addNote or updateNote call started by NotePage's submit, whose promise
\* the submit handler did not keep, is ever rejected with nobody handling it.
NoUnhandledRejection ==
  \A c \in submitted : calls[c].status # "rejected"

\* str has a character that is not white space
NonBlank(str) == \E i \in 1..Len(str) : str[i] \notin WhiteSpace

\* C23: form validation guards the store.  A step that starts a store call
\* is a submit of a form whose title, subheading and content are all
\* non-blank; it calls addNote in add mode and updateNote with the URL's id
\* in edit mode, with the three fields as typed, and navigates home.  A
\* submit with a blank field starts no call, sends no request and stays on
\* the page.  So every note created or updated through the form has
\* non-blank title, subheading and content.
FormValidation ==
  [][/\ Len(calls') > Len(calls)
          => /\ NonBlank(title) /\ NonBlank(subheading) /\ NonBlank(content)
             /\ calls'[Len(calls')].fields = CurrentForm
             /\ calls'[Len(calls')].kind = IF pathname = "/add" THEN "add" ELSE "update"
             /\ pathname = "/edit/:id" => calls'[Len(calls')].id = urlId
             /\ pathname' = "/"
     /\ event'.op = "handleSubmit"
          => /\ ~(NonBlank(title) /\ NonBlank(subheading) /\ NonBlank(content))
             /\ calls' = calls
             /\ requests' = requests
             /\ pathname' = pathname
     /\ \A c \in DOMAIN calls' :
          /\ NonBlank(calls'[c].fields.title)
          /\ NonBlank(calls'[c].fields.subheading)
          /\ NonBlank(calls'[c].fields.content)]_vars

\* the edit form of note 1 was sent with a title that has leading white
\* space, as typed (untrimmed), and the user is on Home
FormSubmittedWitness ==
  /\ \E c \in submitted :
       /\ calls[c].kind = "update"
       /\ calls[c].fields.title = <<" ", "a">>
       /\ calls[c].id = 1
  /\ pathname = "/"

\* C24 as stated: navigate home after success.  When a valid submit has
\* navigated to "/", the addNote/updateNote call it started has completed
\* successfully.
NavigateAfterSuccess ==
  (event.op \in {"addNote", "updateNote"} /\ event.call \in submitted /\ pathname = "/")
    => calls[event.call].status = "resolved"

\* the route and the :id NotePage's load effect runs with in this step, when
\* it runs: on the first commit, on a navigation, and after a render caused
\* by a store update
EffectRuns ==
  \/ event'.op \in {"fetchNotes", "navigate", "fetchNotes.settle"}
  \/ /\ event'.op \in {"addNote.settle", "updateNote.settle"}
     /\ calls'[event'.call].status = "resolved"
EffectPath == IF event'.op = "navigate" THEN event'.to ELSE pathname
EffectId == IF event'.op = "navigate" THEN event'.id ELSE urlId

\* C25: not-found redirect.  Whenever NotePage's load effect runs in view
\* or edit mode with an id in the URL, it copies title, subheading and
\* content of the store's first note with that id into the page state and
\* stays on the page when the collection holds the id, and navigates to "/"
\* when it does not; in add mode no store update and no render changes the
\* page or its fields.
NotFoundRedirect ==
  [][EffectRuns =>
       /\ EffectPath \in {"/note/:id", "/edit/:id"}
            => IF \E i \in 1..Len(notes') : notes'[i].id = EffectId
               THEN /\ pathname' = EffectPath
                    /\ urlId' = EffectId
                    /\ \E i \in 1..Len(notes') :
                         /\ notes'[i].id = EffectId
                         /\ \A j \in 1..(i - 1) : notes'[j].id # EffectId
                         /\ title' = notes'[i].title
                         /\ subheading' = notes'[i].subheading
                         /\ content' = notes'[i].content
               ELSE pathname' = "/"
       /\ EffectPath = "/add"
            => /\ pathname' = "/add"
               /\ event'.op # "navigate" => CurrentForm' = CurrentForm]_vars

\* the edit page of a fetched note shows the note's fields
NoteLoadedWitness ==
  /\ event.op = "navigate"
  /\ event.to = "/edit/:id"
  /\ pathname = "/edit/:id"
  /\ urlId = 1
  /\ title = getNote(notes, 1).title
  /\ subheading = getNote(notes, 1).subheading

\* C30: a view/edit page opened during the initial load redirects.  A view or
\* edit route entered while the initial fetch is pending and the collection
\* is empty, or opened directly when the app starts, ends on "/"; the fetch
\* that later delivers the list leaves Home shown; and whenever a view or
\* edit page is shown, the collection held a note with its id when the load
\* effect last ran.
OpenedDuringLoad ==
  [][/\ (/\ event'.op = "navigate"
         /\ event'.to \in {"/note/:id", "/edit/:id"}
         /\ fetchState = "pending"
         /\ notes = <<>>) => pathname' = "/"
     /\ event'.op = "fetchNotes" => pathname' \in {"/", "/add"}
     /\ (event'.op = "fetchNotes.settle" /\ pathname = "/") => pathname' = "/"
     /\ pathname' \in {"/note/:id", "/edit/:id"} => urlId' \in IdsOf(notes')]_vars

\* the edit page of note 1 was opened while the fetch was pending and the
\* user is on Home
RedirectedWitness ==
  /\ event.op = "navigate"
  /\ event.to = "/edit/:id"
  /\ event.id = 1
  /\ fetchState = "pending"
  /\ notes = <<>>
  /\ pathname = "/"
====
